---------------------------- MODULE Spec2Model ----------------------------
(***************************************************************************)
(* Model of the admin upload pipeline of the gallery:                      *)
(*   src/src/components/admin/UploadModal.tsx  (UploadModal)               *)
(*   src/unnamed/part_003                       (uploadToPresignedUrl)     *)
(*   src/unnamed/part_000                       (UploadButton)             *)
(*   src/src/lib/image-processing.ts            (extractImageDate,         *)
(*                                               generateThumbnail)        *)
(*   src/unnamed/part_006                       (POST /api/photos)         *)
(*                                                                         *)
(* The component state is three signals (files, selectedCollections,       *)
(* uploading).  Every event handler and every continuation after an await  *)
(* is one action.  List indexes are kept 0-based as in the source; the     *)
(* element with source index k is files[k+1].                              *)
(*                                                                         *)
(* A JavaScript array element is modelled as a record with a kind:         *)
(*   "obj"   an UploadState object; a field that is undefined holds        *)
(*           file = 0, processed = 0, status = "undefined",                *)
(*           progress = -1, error = "undefined"                            *)
(*   "undef" the value undefined stored in the array                       *)
(*   "hole"  an array hole (index below length never assigned)             *)
(* Rendering is not modelled; signals are plain state.  The network and    *)
(* the image decoder are the environment: every awaited call may succeed   *)
(* or fail, and the operator may act between any two continuations.        *)
(***************************************************************************)
EXTENDS Integers, Sequences, FiniteSets, Bags, TLC

\* Number of files the operator selects over the whole session.
MaxFiles == 3
\* Number of files one change event of the file input may carry.
MaxSelect == 2
\* Number of collections passed to the modal (props.collections).
NumCollections == 1

FileIds == 1..MaxFiles
Collections == 1..NumCollections

\* loaded/total*100 of the computable progress events of one PUT: the
\* event that reports the whole body sent (events with less are left out)
Percents == {100}

VARIABLES
    files,                \* signal files(): the list of UploadState
    selectedCollections,  \* signal selectedCollections(): list of ids
    uploading,            \* signal uploading()
    tasks,                \* derivations in flight: [file, actualIndex]
    nextFile,             \* identity of the next file the operator picks
    pc,                   \* position of handleUpload
    i,                    \* loop variable of handleUpload
    uploadState,          \* const uploadState of the running iteration:
                          \* its file and its processed payload
    loaded,               \* last percentage reported by the running PUT
    alertMsg,             \* the alert() shown by the last step, if any
    modalOpen,            \* UploadButton.showModal
    completed,            \* props.onUploadComplete has been called
    calls,                \* network calls issued since the batch started
    seq,                  \* what the running iteration has achieved so far
    batch,                \* facts recorded when the batch started
    db,                   \* the rows of the tables photos, photoCollections
    created,              \* per file, the record-creation calls of its upload
                          \* sequences that got a 2xx response
    arg,                  \* the argument of a function applied on its own
    result                \* what that function returned

vars == <<files, selectedCollections, uploading, tasks, nextFile, pc, i,
          uploadState, loaded, alertMsg, modalOpen, completed, calls, seq,
          batch, db, created, arg, result>>

-----------------------------------------------------------------------------
(* Array elements *)

Undef == [kind |-> "undef", file |-> 0, processed |-> 0,
          status |-> "undefined", progress |-> -1, error |-> "undefined"]

Hole == [Undef EXCEPT !.kind = "hole"]

\* {...undefined}: an object none of whose fields is set
Blank == [Undef EXCEPT !.kind = "obj"]

\* {file, status: "pending", progress: 0}
NewUploadState(f) ==
    [kind |-> "obj", file |-> f, processed |-> 0, status |-> "pending",
     progress |-> 0, error |-> "undefined"]

\* files()[k]: reading a hole or an index past the end yields undefined
At(fs, k) ==
    IF k >= 0 /\ k < Len(fs) /\ fs[k + 1].kind = "obj" THEN fs[k + 1]
    ELSE Undef

\* {...x}: spreading undefined gives an object without fields
SpreadObj(e) == IF e.kind = "obj" THEN e ELSE Blank

\* [...prev]: spreading an array turns holes into undefined
SpreadArr(fs) ==
    [k \in 1..Len(fs) |-> IF fs[k].kind = "hole" THEN Undef ELSE fs[k]]

\* updated[index] = e on a copy of prev; an index past the end grows the
\* array and leaves holes below it
AssignAt(fs, index, e) ==
    LET u == SpreadArr(fs)
    IN  [k \in 1..(IF index + 1 > Len(u) THEN index + 1 ELSE Len(u)) |->
            IF k = index + 1 THEN e
            ELSE IF k <= Len(u) THEN u[k]
            ELSE Hole]


\* the entry replaced instead of copied: {status, error}
UpdateFileStatus_NoSpread(fs, index, status, error) ==
    AssignAt(fs, index, [Blank EXCEPT !.status = status, !.error = error])

\* updateFileStatus(index, status, error)
UpdateFileStatus(fs, index, status, error) ==
    AssignAt(fs, index,
             [SpreadObj(At(fs, index)) EXCEPT !.status = status,
                                              !.error = error])

\* updateFileProgress(index, progress)
UpdateFileProgress(fs, index, progress) ==
    AssignAt(fs, index, [SpreadObj(At(fs, index)) EXCEPT !.progress = progress])

\* the setFiles callback of a resolved processImage
StoreProcessed(fs, index, payload) ==
    AssignAt(fs, index,
             [SpreadObj(At(fs, index)) EXCEPT !.processed = payload,
                                              !.status = "pending"])

\* prev.filter((_, i) => i !== index): filter skips holes
RECURSIVE FilterOut(_, _, _)
FilterOut(fs, index, k) ==
    IF k > Len(fs) THEN <<>>
    ELSE IF k = index + 1 \/ fs[k].kind = "hole"
         THEN FilterOut(fs, index, k + 1)
         ELSE <<fs[k]>> \o FilterOut(fs, index, k + 1)

removeFile(fs, index) == FilterOut(fs, index, 1)

\* prev.includes(id) ? prev.filter((c) => c !== id) : [...prev, id]
Toggle(prev, id) ==
    IF \E k \in 1..Len(prev) : prev[k] = id
    THEN SelectSeq(prev, LAMBDA c : c # id)
    ELSE Append(prev, id)

\* the status left out of the test
Ready_AnyStatus(e) == e.processed # 0

\* f.status === "pending" && f.processed
Ready(e) == e.status = "pending" /\ e.processed # 0

\* the test of the selection left out
NoCollection_Skipped(selected) == FALSE

\* selectedCollections().length === 0
NoCollection(selected) == Len(selected) = 0

\* the callbacks of filter/every/some are not called for holes and throw a
\* TypeError when the element is undefined
HasUndefined(fs) == \E k \in 1..Len(fs) : fs[k].kind = "undef"

ReadyFiles(fs) == {k \in 1..Len(fs) : fs[k].kind = "obj" /\ Ready(fs[k])}

\* a remove button shown on every row
RemoveButtonShown_Always(e) == e.kind = "obj" /\ e.file # 0

\* the row of an entry renders uploadState.file.name and shows the remove
\* button when the status is pending or error
RemoveButtonShown(e) ==
    e.kind = "obj" /\ e.file # 0 /\ e.status \in {"pending", "error"}

\* disabled={uploading() || ...}: the two data conditions of the attribute
\* repeat the tests handleUpload makes itself, which are modelled there
UploadButtonEnabled == ~uploading

-----------------------------------------------------------------------------
(* handleUpload: the for loop *)

\* From index k on, the loop skips entries that are not ready.  It stops at
\* the first ready one ("start"), at the end of the list ("end"), or throws
\* a TypeError reading .status of an undefined element ("throw").
RECURSIVE LoopFrom(_, _)
LoopFrom(fs, k) ==
    IF k >= Len(fs) THEN [kind |-> "end", i |-> k]
    ELSE IF fs[k + 1].kind # "obj" THEN [kind |-> "throw", i |-> k]
    ELSE IF ~Ready(fs[k + 1]) THEN LoopFrom(fs, k + 1)
    ELSE [kind |-> "start", i |-> k]

\* the test of line 186 without allDone
AllDone_SomeDone(fs) ==
    \E k \in 1..Len(fs) : fs[k].kind = "obj" /\ fs[k].status = "done"

\* files().every(done or error) && files().some(done)
AllDone(fs) ==
    /\ ~HasUndefined(fs)
    /\ \A k \in 1..Len(fs) :
          fs[k].kind = "obj" => fs[k].status \in {"done", "error"}
    /\ \E k \in 1..Len(fs) : fs[k].kind = "obj" /\ fs[k].status = "done"

\* the outcomes the running iteration has awaited so far
NoSeq == [urls |-> "none", json |-> FALSE, original |-> -1, thumbnail |-> -1,
          collectionIds |-> <<>>]

NoUploadState == [file |-> 0, processed |-> 0]

NoCalls == [acq |-> 0, xfer |-> 0, rec |-> 0]

NoBatch == [n |-> 0, clean |-> FALSE, collections |-> <<>>,
            interfered |-> FALSE, failed |-> FALSE, entered |-> {}]

\* alert() blocks until it is dismissed; a step that shows none leaves none
NoAlert == alertMsg' = "none"

\* Runs the loop from index k over the list fs until the next await, the
\* end of handleUpload or an uncaught exception.  c and b are the calls made
\* and the facts recorded by the batch so far; both are kept only while the
\* batch runs.
RunLoop(fs, k, c, b) ==
    LET r == LoopFrom(fs, k)
    IN  /\ i' = r.i
        /\ loaded' = 0
        /\ uploading' = (r.kind # "end")
        /\ NoAlert
        /\ UNCHANGED <<selectedCollections, tasks, nextFile>>
        /\ CASE r.kind = "start" ->
                  /\ files' = UpdateFileStatus(fs, r.i, "uploading", "undefined")
                  /\ uploadState' = [file |-> fs[r.i + 1].file,
                                     processed |-> fs[r.i + 1].processed]
                  /\ pc' = "acquire"
                  /\ seq' = NoSeq
                  /\ calls' = [c EXCEPT !.acq = @ + 1]
                  /\ batch' = [b EXCEPT !.entered = @ \cup {fs[r.i + 1].file}]
                  /\ UNCHANGED <<modalOpen, completed>>
             [] r.kind = "end" ->
                  /\ files' = fs
                  /\ uploadState' = NoUploadState
                  /\ pc' = "idle"
                  /\ seq' = NoSeq
                  /\ calls' = NoCalls
                  /\ batch' = NoBatch
                  /\ IF AllDone(fs)
                     THEN completed' = TRUE /\ modalOpen' = FALSE
                     ELSE UNCHANGED <<modalOpen, completed>>
             [] r.kind = "throw" ->
                  /\ files' = fs
                  /\ uploadState' = NoUploadState
                  /\ pc' = "dead"
                  /\ seq' = NoSeq
                  /\ calls' = c
                  /\ batch' = b
                  /\ UNCHANGED <<modalOpen, completed>>


\* a catch block that leaves the loop
Catch_Break(message, c, b) ==
    RunLoop(UpdateFileStatus(files, i, "error", message), Len(files) + 1, c, b)

\* the catch block: updateFileStatus(i, "error", String(error)), then the
\* loop goes on with the next index
Catch(message, c, b) ==
    RunLoop(UpdateFileStatus(files, i, "error", message), i + 1, c, b)

\* a step of the operator while a batch is between two of its awaits
Interfere ==
    batch' = IF pc \in {"idle", "dead"} THEN batch
             ELSE [batch EXCEPT !.interfered = TRUE]

-----------------------------------------------------------------------------
(* Operator: the handlers of the modal *)

\* updateFileStatus(actualIndex, "processing") of each new file, with
\* actualIndex = files().length - newFiles.length + index
RECURSIVE StartProcessing(_, _, _)
StartProcessing(fs, n, index) ==
    IF index >= n THEN fs
    ELSE StartProcessing(
             UpdateFileStatus(fs, Len(fs) - n + index, "processing", "undefined"),
             n, index + 1)

\* handleFileSelect with n files in input.files
handleFileSelect(n) ==
    /\ UNCHANGED <<db, created, arg, result>>
    /\ modalOpen
    /\ nextFile + n - 1 <= MaxFiles
    /\ LET newFiles == [k \in 1..n |-> NewUploadState(nextFile + k - 1)]
           appended == SpreadArr(files) \o newFiles
       IN  /\ files' = StartProcessing(appended, n, 0)
           /\ tasks' = tasks \cup
                 {[file |-> nextFile + index,
                   actualIndex |-> Len(appended) - n + index] : index \in 0..(n - 1)}
    /\ nextFile' = nextFile + n
    /\ Interfere
    /\ NoAlert
    /\ UNCHANGED <<selectedCollections, uploading, pc, i, uploadState, loaded,
                   modalOpen, completed, calls, seq>>

\* toggleCollection(id), a click on a collection chip
toggleCollection(id) ==
    /\ UNCHANGED <<db, created, arg, result>>
    /\ modalOpen
    /\ selectedCollections' = Toggle(selectedCollections, id)
    /\ NoAlert
    /\ UNCHANGED <<files, uploading, tasks, nextFile, pc, i, uploadState, loaded,
                   modalOpen, completed, calls, seq, batch>>

\* a click on the remove button of the row with this index
RemoveClick(index) ==
    /\ UNCHANGED <<db, created, arg, result>>
    /\ modalOpen
    /\ index < Len(files)
    /\ RemoveButtonShown(files[index + 1])
    /\ files' = removeFile(files, index)
    /\ Interfere
    /\ NoAlert
    /\ UNCHANGED <<selectedCollections, uploading, tasks, nextFile, pc, i,
                   uploadState, loaded, modalOpen, completed, calls, seq>>

\* props.onClose: the Cancel button or the X of the modal
onClose ==
    /\ UNCHANGED <<db, created, arg, result>>
    /\ modalOpen
    /\ modalOpen' = FALSE
    /\ NoAlert
    /\ UNCHANGED <<files, selectedCollections, uploading, tasks, nextFile, pc,
                   i, uploadState, loaded, completed, calls, seq, batch>>

\* handleUpload up to its first await
handleUpload ==
    /\ UNCHANGED <<db, created, arg, result>>
    /\ modalOpen
    /\ UploadButtonEnabled
    /\ IF NoCollection(selectedCollections)
       THEN /\ alertMsg' = "Please select at least one collection"
            /\ UNCHANGED <<files, selectedCollections, uploading, tasks,
                           nextFile, pc, i, uploadState, loaded, modalOpen,
                           completed, calls, seq, batch>>
       ELSE IF HasUndefined(files)
       THEN \* the filter callback throws: handleUpload rejects here
            /\ NoAlert
            /\ UNCHANGED <<files, selectedCollections, uploading, tasks,
                           nextFile, pc, i, uploadState, loaded, modalOpen,
                           completed, calls, seq, batch>>
       ELSE IF ReadyFiles(files) = {}
       THEN /\ alertMsg' = "No files ready to upload"
            /\ UNCHANGED <<files, selectedCollections, uploading, tasks,
                           nextFile, pc, i, uploadState, loaded, modalOpen,
                           completed, calls, seq, batch>>
       ELSE \* setUploading(true), then the loop from i = 0
            RunLoop(files, 0, NoCalls,
                    [n |-> Cardinality(ReadyFiles(files)),
                     clean |-> /\ tasks = {}
                               /\ \A k \in 1..Len(files) :
                                     /\ files[k].kind = "obj"
                                     /\ files[k].file # 0
                                     /\ Ready(files[k]),
                     collections |-> selectedCollections,
                     interfered |-> FALSE,
                     failed |-> FALSE,
                     entered |-> {}])

-----------------------------------------------------------------------------
(* Derivation: the continuation of each forEach callback *)

\* processImage(uploadState.file) resolved
ProcessImageResolved(t) ==
    /\ UNCHANGED <<db, created, arg, result>>
    /\ t \in tasks
    /\ files' = StoreProcessed(files, t.actualIndex, t.file)
    /\ tasks' = tasks \ {t}
    /\ NoAlert
    /\ UNCHANGED <<selectedCollections, uploading, nextFile, pc, i, uploadState,
                   loaded, modalOpen, completed, calls, seq, batch>>

\* processImage(uploadState.file) rejected
ProcessImageRejected(t) ==
    /\ UNCHANGED <<db, created, arg, result>>
    /\ t \in tasks
    /\ files' = UpdateFileStatus(files, t.actualIndex, "error", "process")
    /\ tasks' = tasks \ {t}
    /\ NoAlert
    /\ UNCHANGED <<selectedCollections, uploading, nextFile, pc, i, uploadState,
                   loaded, modalOpen, completed, calls, seq, batch>>

-----------------------------------------------------------------------------
(* lib/image-processing: extractImageDate and generateThumbnail *)

\* What ExifReader gives as the description of a tag:
\*   "absent"    no such tag, or a description that is falsy
\*   "date"      "YYYY:MM:DD HH:MM:SS"
\*   "dateOnly"  "YYYY:MM:DD"
\*   "garbage"   another string: parseInt gives NaN for a part of it, as for
\*               the blank date "    :  :     :  :  " or for "2020-01-01"
\*   "notString" a truthy value without a split method
TagValues == {"absent", "date", "dateOnly", "garbage", "notString"}

\* a File as extractImageDate sees it; lastModified 0 stands for a falsy one
DateInputs ==
    [DateTimeOriginal : TagValues, DateTime : TagValues,
     DateTimeDigitized : TagValues, loadThrows : BOOLEAN,
     lastModified : {0, 1}]

\* a || b || c over the three descriptions
FirstTruthy(file) ==
    IF file.DateTimeOriginal # "absent"
    THEN [tag |-> "DateTimeOriginal", description |-> file.DateTimeOriginal]
    ELSE IF file.DateTime # "absent"
    THEN [tag |-> "DateTime", description |-> file.DateTime]
    ELSE [tag |-> "DateTimeDigitized", description |-> file.DateTimeDigitized]

\* new Date(parseInt(year), parseInt(month) - 1, ...) of the split string;
\* a missing time part is replaced by ["00", "00", "00"]; a NaN argument
\* gives the Invalid Date
ParseExifDate(description) ==
    IF description \in {"date", "dateOnly"} THEN "valid" ELSE "Invalid Date"

\* file.lastModified ? new Date(file.lastModified) : new Date()
FallbackDate(file) ==
    IF file.lastModified # 0
    THEN [source |-> "lastModified", date |-> "valid"]
    ELSE [source |-> "now", date |-> "valid"]

\* extractImageDate(file): where the date comes from and whether it is a
\* valid Date
extractImageDate(file) ==
    LET dateString == FirstTruthy(file)
    IN  IF file.loadThrows THEN FallbackDate(file)
        ELSE IF dateString.description = "absent" THEN FallbackDate(file)
        ELSE IF dateString.description = "notString"
        THEN \* dateString.split is not a function: caught
             FallbackDate(file)
        ELSE [source |-> dateString.tag,
              date |-> ParseExifDate(dateString.description)]

THUMBNAIL_MAX_SIZE == 800

\* Math.round(num / den) for num >= 0, den > 0
Round(num, den) == (2 * num + den) \div (2 * den)

\* Math.min over the two quotients, kept as a fraction
Scale_Max(width, height) ==
    IF width <= height
    THEN [num |-> THUMBNAIL_MAX_SIZE, den |-> width]
    ELSE [num |-> THUMBNAIL_MAX_SIZE, den |-> height]

\* Math.min(THUMBNAIL_MAX_SIZE / width, THUMBNAIL_MAX_SIZE / height)
Scale(width, height) ==
    IF width >= height
    THEN [num |-> THUMBNAIL_MAX_SIZE, den |-> width]
    ELSE [num |-> THUMBNAIL_MAX_SIZE, den |-> height]

\* the canvas size img.onload computes for an image of this size
ThumbnailSize(width, height) ==
    IF width > THUMBNAIL_MAX_SIZE \/ height > THUMBNAIL_MAX_SIZE
    THEN LET scale == Scale(width, height)
         IN  [width |-> Round(width * scale.num, scale.den),
              height |-> Round(height * scale.num, scale.den)]
    ELSE [width |-> width, height |-> height]

\* processed.date of a payload: what extractImageDate returns for some
\* file.  A payload is stored on one entry only and is replaced when the
\* entry is written again, so its date is read at most once (line 164);
\* it is drawn there, for any file the operator may have on disk.
Dates == {extractImageDate(file).date : file \in DateInputs}

-----------------------------------------------------------------------------
(* routes/api/photos: POST *)

AuthKeys == {"missing", "wrong", "expected"}

\* the requests POST may receive: the X-Auth-Key header, whether url,
\* thumbnail and date are truthy in the body, and collectionIds
\* a value of the body field collectionIds
Missing == [kind |-> "missing", ids |-> <<>>]
NotArray == [kind |-> "notArray", ids |-> <<>>]
Array(ids) == [kind |-> "array", ids |-> ids]

Requests ==
    [authKey : AuthKeys, url : BOOLEAN, thumbnail : BOOLEAN, date : BOOLEAN,
     collectionIds : {Missing, NotArray, Array(<<>>), Array(<<1>>)}]

\* what the database does with the two inserts
DbOutcomes == {"ok", "photoFails", "membershipFails"}

\* The two tables are bags of rows.  The generated id of a photo row is
\* left out: a photo row is known by its url, and a membership row by the
\* url of its photo.
NoRows == [photos |-> EmptyBag, photoCollections |-> EmptyBag]

\* collectionIds.map(collectionId => ({photoId, collectionId}))
RECURSIVE Memberships(_, _)
Memberships(photo, collectionIds) ==
    IF collectionIds = <<>> THEN EmptyBag
    ELSE SetToBag({[photo |-> photo, collectionId |-> Head(collectionIds)]})
            (+) Memberships(photo, Tail(collectionIds))

\* !collectionIds || !Array.isArray(collectionIds) || length === 0
NoCollectionIds(collectionIds) ==
    \/ collectionIds.kind = "missing"
    \/ collectionIds.kind # "array"
    \/ Len(collectionIds.ids) = 0

\* the 401 test without the comparison with the expected key
Unauthorized_AnyKey(authKey) == authKey = "missing"

\* !authKey || authKey !== expectedKey
Unauthorized(authKey) == authKey = "missing" \/ authKey # "expected"

\* POST(event) on the tables rows: the status of the response and the
\* tables afterwards.  name is what the photo row holds as url.  An insert
\* that throws gives the 500 of the framework.
POST(request, name, rows, outcome) ==
    IF Unauthorized(request.authKey)
    THEN [status |-> 401, db |-> rows]
    ELSE IF ~request.url \/ ~request.thumbnail \/ ~request.date
    THEN [status |-> 400, db |-> rows]
    ELSE IF NoCollectionIds(request.collectionIds)
    THEN [status |-> 400, db |-> rows]
    ELSE IF outcome = "photoFails"
    THEN [status |-> 500, db |-> rows]
    ELSE LET photo == [url |-> name]
             inserted == [rows EXCEPT !.photos = @ (+) SetToBag({photo})]
         IN  IF outcome = "membershipFails"
             THEN [status |-> 500, db |-> inserted]
             ELSE [status |-> 201,
                   db |-> [inserted EXCEPT !.photoCollections =
                              @ (+) Memberships(name,
                                                request.collectionIds.ids)]]

-----------------------------------------------------------------------------
(* handleUpload: the continuations after each await *)

\* urlRes.ok / photoRes.ok
ResponseOk(outcome) == outcome = "ok"

\* the upper limit of the status left out
StatusOk_NoUpperLimit(status) == status >= 200

\* xhr.status >= 200 && xhr.status < 300
StatusOk(status) == status >= 200 /\ status < 300

\* (progress) => updateFileProgress(i, progress * 0.5)
OriginalProgress(progress) == progress \div 2

\* (progress) => updateFileProgress(i, 50 + progress * 0.5)
ThumbnailProgress(progress) == 50 + progress \div 2

\* outcomes of a fetch: a response that is ok, one that is not, a rejection
FetchOutcomes == {"ok", "notok", "reject"}

\* outcomes of a PUT: load with a status, or the error event (0)
XhrOutcomes == {200, 403, 0}

\* XMLHttpRequest: when the request body has been sent, xhr.upload gets a
\* last progress event with loaded = total before load is fired, so a PUT
\* that the storage accepted has reported 100; a PUT that fails may have
\* reported anything
Deliverable(status) == StatusOk(status) => loaded = 100

\* fetch("/api/upload") settled
UrlsFetched(outcome) ==
    /\ UNCHANGED <<db, created, arg, result>>
    /\ pc = "acquire"
    /\ IF outcome # "reject" /\ ResponseOk(outcome)
       THEN /\ pc' = "json"
            /\ seq' = [seq EXCEPT !.urls = outcome]
            /\ NoAlert
            /\ UNCHANGED <<files, selectedCollections, uploading, tasks,
                           nextFile, i, uploadState, loaded, modalOpen,
                           completed, calls, batch>>
       ELSE Catch("urls", calls, [batch EXCEPT !.failed = TRUE])

\* urlRes.json() settled; on success the PUT of the original is sent
UrlsParsed(ok) ==
    /\ UNCHANGED <<db, created, arg, result>>
    /\ pc = "json"
    /\ IF ok
       THEN /\ pc' = "original"
            /\ seq' = [seq EXCEPT !.json = ok]
            /\ calls' = [calls EXCEPT !.xfer = @ + 1]
            /\ loaded' = 0
            /\ NoAlert
            /\ UNCHANGED <<files, selectedCollections, uploading, tasks,
                           nextFile, i, uploadState, modalOpen,
                           completed, batch>>
       ELSE Catch("urls", calls, [batch EXCEPT !.failed = TRUE])

\* the progress listener of xhr.upload, for an event with a computable
\* length; the loaded bytes of one request never decrease
UploadProgress(percent) ==
    /\ UNCHANGED <<db, created, arg, result>>
    /\ pc \in {"original", "thumbnail"}
    /\ percent >= loaded
    /\ loaded' = percent
    /\ NoAlert
    /\ files' = UpdateFileProgress(files, i,
                    IF pc = "original" THEN OriginalProgress(percent)
                                       ELSE ThumbnailProgress(percent))
    /\ UNCHANGED <<selectedCollections, uploading, tasks, nextFile, pc, i,
                   uploadState, modalOpen, completed, calls, seq, batch>>

\* the load listener (status > 0) or the error listener (status 0) of the
\* PUT of the original; on success the PUT of the thumbnail is sent
OriginalSettled(status) ==
    /\ UNCHANGED <<db, created, arg, result>>
    /\ pc = "original"
    /\ Deliverable(status)
    /\ IF StatusOk(status)
       THEN /\ pc' = "thumbnail"
            /\ seq' = [seq EXCEPT !.original = status]
            /\ calls' = [calls EXCEPT !.xfer = @ + 1]
            /\ loaded' = 0
            /\ NoAlert
            /\ UNCHANGED <<files, selectedCollections, uploading, tasks,
                           nextFile, i, uploadState, modalOpen,
                           completed, batch>>
       ELSE Catch("upload", calls, [batch EXCEPT !.failed = TRUE])

\* the same for the PUT of the thumbnail; on success the body of the
\* record-creation request is built: processed.date.toISOString() throws a
\* RangeError on the Invalid Date, otherwise the request is sent with
\* selectedCollections() as read at this moment
ThumbnailSettled(status, date) ==
    /\ UNCHANGED <<db, created, arg, result>>
    /\ pc = "thumbnail"
    /\ Deliverable(status)
    /\ IF ~StatusOk(status)
       THEN Catch("upload", calls, batch)
       ELSE IF date = "Invalid Date"
       THEN Catch("RangeError: Invalid time value", calls, batch)
       ELSE /\ pc' = "record"
            /\ seq' = [seq EXCEPT !.thumbnail = status,
                                  !.collectionIds = selectedCollections]
            /\ calls' = [calls EXCEPT !.rec = @ + 1]
            /\ loaded' = 0
            /\ NoAlert
            /\ UNCHANGED <<files, selectedCollections, uploading, tasks,
                           nextFile, i, uploadState, modalOpen, completed,
                           batch>>

\* what may happen to a request on its way: it is answered, it never
\* reaches the server, or its response never reaches the browser
NetOutcomes == {"answered", "lostRequest", "lostResponse"}

\* the body and the header the client sends to /api/photos (lines 155-167):
\* the three strings are never empty
PhotoRequest(authKey) ==
    [authKey |-> authKey, url |-> TRUE, thumbnail |-> TRUE, date |-> TRUE,
     collectionIds |-> Array(seq.collectionIds)]

\* photoRes.ok
StatusIsOk(status) == status >= 200 /\ status < 300

\* fetch("/api/photos") settled: the server has handled the request unless
\* it was lost; a lost request or response rejects the fetch
PhotoFetched(authKey, outcome, net) ==
    LET response == POST(PhotoRequest(authKey), uploadState.processed, db,
                         outcome)
    IN  /\ pc = "record"
        /\ UNCHANGED <<arg, result>>
        /\ db' = IF net = "lostRequest" THEN db ELSE response.db
        /\ created' = IF net = "answered" /\ StatusIsOk(response.status)
                      THEN created (+) SetToBag({uploadState.file})
                      ELSE created
        /\ IF net = "answered" /\ StatusIsOk(response.status)
           THEN RunLoop(UpdateFileProgress(
                            UpdateFileStatus(files, i, "done", "undefined"),
                            i, 100),
                        i + 1, calls, batch)
           ELSE Catch("record", calls, batch)

-----------------------------------------------------------------------------

\* the modal as it is mounted, and empty tables
Mounted ==
    /\ files = <<>>
    /\ selectedCollections = <<>>
    /\ uploading = FALSE
    /\ tasks = {}
    /\ nextFile = 1
    /\ pc = "idle"
    /\ i = 0
    /\ uploadState = NoUploadState
    /\ loaded = 0
    /\ alertMsg = "none"
    /\ modalOpen = TRUE
    /\ completed = FALSE
    /\ calls = NoCalls
    /\ seq = NoSeq
    /\ batch = NoBatch
    /\ db = NoRows
    /\ created = EmptyBag

Init == Mounted /\ arg = "none" /\ result = "none"

Next ==
    \/ \E n \in 1..MaxSelect : handleFileSelect(n)
    \/ \E id \in Collections : toggleCollection(id)
    \/ \E index \in 0..(MaxFiles - 1) : RemoveClick(index)
    \/ onClose
    \/ handleUpload
    \/ \E t \in tasks : ProcessImageResolved(t)
    \/ \E t \in tasks : ProcessImageRejected(t)
    \/ \E outcome \in FetchOutcomes : UrlsFetched(outcome)
    \/ \E ok \in BOOLEAN : UrlsParsed(ok)
    \/ \E percent \in Percents : UploadProgress(percent)
    \/ \E status \in XhrOutcomes : OriginalSettled(status)
    \/ \E status \in XhrOutcomes, date \in Dates :
          ThumbnailSettled(status, date)
    \/ \E authKey \in AuthKeys, outcome \in DbOutcomes, net \in NetOutcomes :
          PhotoFetched(authKey, outcome, net)

Spec == Init /\ [][Next]_vars

-----------------------------------------------------------------------------
(* lib/r2: uploadToPresignedUrl on its own *)

\* the state of the modal, which the functions applied on their own leave
\* as it is
modal == <<files, selectedCollections, uploading, tasks, nextFile, pc, i,
           uploadState, loaded, alertMsg, modalOpen, completed, calls, seq,
           batch, db, created>>

\* xhr.status when the request is over: 0 when the connection failed (the
\* error event), the status of the response otherwise (the load event)
XhrStatuses == {0} \cup (100..599)

\* new Promise(...): not settled, and neither resolve nor reject called
NewPromise == [state |-> "pending", reason |-> "none", settled |-> 0]

\* resolve() and reject(new Error(message)) of the Promise: the first call
\* settles it, a later call changes nothing
Resolve(promise) ==
    IF promise.state = "pending"
    THEN [state |-> "fulfilled", reason |-> "none",
          settled |-> promise.settled + 1]
    ELSE promise

Reject(promise, message) ==
    IF promise.state = "pending"
    THEN [state |-> "rejected", reason |-> message,
          settled |-> promise.settled + 1]
    ELSE promise

\* a load listener that does not look at the status
OnLoad_AlwaysResolves(promise, status) == Resolve(promise)

\* the load listener
OnLoad(promise, status) ==
    IF StatusOk(status) THEN Resolve(promise)
    ELSE Reject(promise, "Upload failed with status " \o ToString(status))

\* the error listener
OnError(promise) == Reject(promise, "Upload failed")

\* a PUT that ends with the status arg has been sent
InitXhr ==
    /\ Mounted
    /\ arg \in XhrStatuses
    /\ result = NewPromise

\* XMLHttpRequest fires one of load and error, once, when the request is
\* over
XhrLoad ==
    /\ arg # 0
    /\ result.state = "pending"
    /\ result' = OnLoad(result, arg)
    /\ UNCHANGED <<arg, modal>>

XhrError ==
    /\ arg = 0
    /\ result.state = "pending"
    /\ result' = OnError(result)
    /\ UNCHANGED <<arg, modal>>

NextXhr == XhrLoad \/ XhrError

SpecXhr == InitXhr /\ [][NextXhr]_vars

-----------------------------------------------------------------------------
(* lib/image-processing: the two functions on their own *)

NoDate == [source |-> "none", date |-> "none"]

\* processImage has been called on the file arg
InitDate ==
    /\ Mounted
    /\ arg \in DateInputs
    /\ result = NoDate

\* extractImageDate(file) returns
ExtractImageDate ==
    /\ result = NoDate
    /\ result' = extractImageDate(arg)
    /\ UNCHANGED <<arg, modal>>

NextDate == ExtractImageDate

SpecDate == InitDate /\ [][NextDate]_vars

\* img.width and img.height of the decoded images: around the limit, far
\* above it, and very small
Dims == {1, 2, 3} \cup (797..803) \cup
        {1199, 1200, 1201, 1600, 1601, 2400, 3000, 4000, 4001}

NoSize == [width |-> -1, height |-> -1]

\* generateThumbnail has decoded an image of the size arg
InitThumbnail ==
    /\ Mounted
    /\ arg \in [width : Dims, height : Dims]
    /\ result = NoSize

\* img.onload sets canvas.width and canvas.height
ImgOnload ==
    /\ result = NoSize
    /\ result' = ThumbnailSize(arg.width, arg.height)
    /\ UNCHANGED <<arg, modal>>

NextThumbnail == ImgOnload

SpecThumbnail == InitThumbnail /\ [][NextThumbnail]_vars

-----------------------------------------------------------------------------
(* routes/api/photos: POST on its own *)

\* tables that already hold a photo with its membership
SomeRows ==
    [photos |-> SetToBag({[url |-> 2]}),
     photoCollections |-> SetToBag({[photo |-> 2, collectionId |-> 1]})]

NoResponse == [status |-> 0, db |-> NoRows]

\* a request for the photo 1 has arrived
InitPost ==
    /\ Mounted
    /\ arg \in [request : Requests, outcome : DbOutcomes,
                rows : {NoRows, SomeRows}]
    /\ result = NoResponse

\* POST(event) returns
HandlePost ==
    /\ result = NoResponse
    /\ result' = POST(arg.request, 1, arg.rows, arg.outcome)
    /\ UNCHANGED <<arg, modal>>

NextPost == HandlePost

SpecPost == InitPost /\ [][NextPost]_vars

-----------------------------------------------------------------------------
(* Vocabulary of the properties *)

\* the positions of the entries that hold the file f (at most one)
EntriesOf(fs, f) ==
    {k \in 1..Len(fs) : fs[k].kind = "obj" /\ fs[k].file = f}

\* the status of the file f in the list, "absent" when it has no entry
StatusOf(fs, f) ==
    IF EntriesOf(fs, f) = {} THEN "absent"
    ELSE fs[CHOOSE k \in EntriesOf(fs, f) : TRUE].status

\* the progress of the file f in the list, -1 when it has no entry
ProgressOf(fs, f) ==
    IF EntriesOf(fs, f) = {} THEN -1
    ELSE fs[CHOOSE k \in EntriesOf(fs, f) : TRUE].progress

ErrorOf(fs, f) ==
    IF EntriesOf(fs, f) = {} THEN "undefined"
    ELSE fs[CHOOSE k \in EntriesOf(fs, f) : TRUE].error

\* some entry is pending with a Derived payload
SomeReady(fs) ==
    \E k \in 1..Len(fs) :
        fs[k].kind = "obj" /\ fs[k].status = "pending" /\ fs[k].processed # 0

InSequence == pc \in {"acquire", "json", "original", "thumbnail", "record"}

\* the step in which handleUpload returns after its loop
BatchEnds == InSequence /\ pc' = "idle"

-----------------------------------------------------------------------------
(* C1 *)

\* C1: handleUpload triggered with no collection selected, or with no file
\* pending with a Derived payload, issues no network call, changes no file,
\* and does not set the uploading flag.
C1_RejectedBatchChangesNothing ==
    [][(handleUpload /\ (Len(selectedCollections) = 0 \/ ~SomeReady(files)))
          => /\ files' = files
             /\ calls' = calls
             /\ pc' = pc
             /\ uploading' = FALSE]_vars

\* handleUpload has just refused a batch although files were ready
C1_Witness ==
    /\ alertMsg = "Please select at least one collection"
    /\ SomeReady(files)
    /\ ~uploading

-----------------------------------------------------------------------------
(* C2 *)

\* the files whose entry has status uploading
UploadingFiles(fs) == {f \in FileIds : StatusOf(fs, f) = "uploading"}

\* C2: uploads are one file at a time: in every reachable state at most
\* one file has status uploading.  (That no acquisition is issued while
\* another sequence is awaited holds by the shape of handleUpload: the one
\* loop awaits each call before it makes the next.)
C2_OneFileAtATime == Cardinality(UploadingFiles(files)) <= 1

-----------------------------------------------------------------------------
(* C3 *)

\* C3: within one upload sequence the original transfer starts only after
\* the acquisition succeeded, the preview transfer only after the original
\* transfer succeeded, and the record-creation call is issued only after
\* both transfers succeeded.
C3_StepsOrdered ==
    LET acquired == seq.urls = "ok" /\ seq.json
        originalSent == seq.original >= 200 /\ seq.original < 300
        thumbnailSent == seq.thumbnail >= 200 /\ seq.thumbnail < 300
    IN  /\ pc = "original" => acquired
        /\ pc = "thumbnail" => acquired /\ originalSent
        /\ pc = "record" => acquired /\ originalSent /\ thumbnailSent
        /\ calls.xfer > 0 => calls.acq > 0
        /\ calls.rec > 0 => calls.xfer >= 2

\* a record-creation call is in flight after the three earlier steps
C3_Witness ==
    /\ pc = "record"
    /\ seq.urls = "ok" /\ seq.original = 200 /\ seq.thumbnail = 200
    /\ calls = [acq |-> 1, xfer |-> 2, rec |-> 1]

-----------------------------------------------------------------------------
(* C4 *)

\* a step in which an await of the running upload sequence fails
SequenceFails ==
    \/ pc = "acquire" /\ pc' # "json" /\ (pc' # pc \/ i' # i)
    \/ pc = "json" /\ pc' \notin {"json", "original"}
    \/ pc = "original" /\ pc' \notin {"original", "thumbnail"}
    \/ pc = "thumbnail" /\ pc' \notin {"thumbnail", "record"}
    \/ pc = "record" /\ pc' # "record" /\ At(files', i).status = "error"

\* C4: a failure of acquisition, of a transfer or of record creation sets
\* only the file of the running sequence to error, with a message, and the
\* batch goes on: the loop neither dies nor ends while a later entry is
\* pending with a Derived payload.
C4_FailureIsLocal ==
    [][SequenceFails =>
          /\ StatusOf(files', uploadState.file) = "error"
          /\ ErrorOf(files', uploadState.file) # "undefined"
          /\ \A f \in FileIds \ {uploadState.file} :
                StatusOf(files', f) \in {StatusOf(files, f), "uploading"}
          /\ pc' # "dead"
          /\ pc' = "idle" =>
                ~\E k \in (i + 2)..Len(files') :
                    files'[k].kind = "obj" /\ Ready(files'[k])]_vars

-----------------------------------------------------------------------------
(* C5 *)

\* C5: once a file's status is error, its status never changes again; the
\* file stays error until the operator removes it.
C5_ErrorIsFinal ==
    [][\A f \in FileIds :
          StatusOf(files, f) = "error" =>
              StatusOf(files', f) \in {"error", "absent"}]_vars

-----------------------------------------------------------------------------
(* C6 *)

\* C6: a file enters uploading only from pending and only with a Derived
\* payload.
C6_UploadingOnlyFromReady ==
    [][\A f \in FileIds :
          (StatusOf(files', f) = "uploading" /\ StatusOf(files, f) # "uploading")
              => \E k \in EntriesOf(files, f) :
                    files[k].status = "pending" /\ files[k].processed # 0]_vars

\* the second file of the list has entered uploading, the first was skipped
C6_Witness ==
    /\ pc = "acquire"
    /\ i = 1
    /\ StatusOf(files, uploadState.file) = "uploading"
    /\ files[1].status \in {"error", "processing"}

-----------------------------------------------------------------------------
(* C7 *)

\* the step in which the PUT of the thumbnail fails
ThumbnailFails ==
    \E status \in XhrOutcomes :
        /\ ~(status >= 200 /\ status < 300)
        /\ \E date \in Dates : ThumbnailSettled(status, date)

-----------------------------------------------------------------------------
(* C8 *)

\* C8: a file's progress is always within [0,100]; it is at most 50 while
\* the file's original transfer is in flight and within [50,100] while its
\* preview transfer is in flight.
C8_ProgressRanges ==
    /\ \A k \in 1..Len(files) :
          (files[k].kind = "obj" /\ files[k].file # 0) =>
              files[k].progress >= 0 /\ files[k].progress <= 100
    /\ pc = "original" => ProgressOf(files, uploadState.file) <= 50
    /\ pc = "thumbnail" =>
          /\ ProgressOf(files, uploadState.file) >= 50
          /\ ProgressOf(files, uploadState.file) <= 100

-----------------------------------------------------------------------------
(* C9 *)

\* C9: within one upload attempt of a file its progress never decreases.
C9_ProgressMonotone ==
    [][\A f \in FileIds :
          (StatusOf(files, f) = "uploading" /\
           StatusOf(files', f) \in {"uploading", "done"})
              => ProgressOf(files', f) >= ProgressOf(files, f)]_vars

-----------------------------------------------------------------------------
(* C10 *)

\* C10 as stated: a batch started on a list of N files, all derived
\* successfully, makes exactly N acquisition calls and 2N transfer calls.
C10_CallCounts ==
    [][(BatchEnds /\ batch.clean) =>
          /\ calls.acq = batch.n
          /\ calls.xfer = 2 * batch.n]_vars

\* C10 as amended: if the operator neither selects nor removes files while
\* the batch runs, it makes exactly N acquisition calls and at most 2N
\* transfer calls, and exactly 2N transfer calls when every acquisition and
\* every transfer of an original succeeds.
C10_CallCountsUndisturbed ==
    [][(BatchEnds /\ batch.clean /\ ~batch.interfered) =>
          /\ calls.acq = batch.n
          /\ calls.xfer <= 2 * batch.n
          /\ (~batch.failed /\ pc \in {"thumbnail", "record"})
                => calls.xfer = 2 * batch.n]_vars

\* the last of two files is in its last step, one of the two having failed
\* at acquisition
C10_Witness ==
    /\ pc = "record"
    /\ batch.clean /\ ~batch.interfered /\ batch.failed
    /\ batch.n = 2
    /\ i = Len(files) - 1
    /\ calls.acq = 2 /\ calls.xfer = 2

-----------------------------------------------------------------------------
(* C11 *)

\* C11: the destination collections are fixed when the batch starts: every
\* record-creation request of a batch carries exactly the collection ids
\* that were selected when the batch passed its precondition tests, also
\* when the operator toggles collections while the batch runs.
C11_CollectionsFixedAtStart ==
    pc = "record" => seq.collectionIds = batch.collections

-----------------------------------------------------------------------------
(* C12 *)

-----------------------------------------------------------------------------
(* C13 *)

\* no entry holds the error of a derivation, an acquisition, a transfer or
\* a record-creation call that failed
NoCallFailed(fs) ==
    \A k \in 1..Len(fs) :
        fs[k].kind = "obj" =>
            fs[k].error \notin {"process", "urls", "upload", "record"}

\* the batch started on files that all derived successfully, and the
\* operator has neither selected nor removed a file since
Undisturbed == batch.clean /\ ~batch.interfered

\* C13: if all selected files derive successfully, a collection is
\* selected, every acquisition, transfer and record-creation call succeeds
\* and the operator does nothing during the batch, then every
\* record-creation request carries the selected collection ids, and the
\* batch ends with every file done at progress 100, one record-creation
\* call per file, and completion signalled.
C13_HappyPath ==
    [][/\ (Undisturbed /\ pc = "thumbnail" /\ pc' = "record"
              /\ selectedCollections = batch.collections)
          => seq'.collectionIds = batch.collections
       /\ (Undisturbed /\ BatchEnds /\ NoCallFailed(files'))
          => /\ \A k \in 1..Len(files') :
                   /\ files'[k].kind = "obj"
                   /\ files'[k].status = "done"
                   /\ files'[k].progress = 100
             /\ calls.rec = batch.n
             /\ completed']_vars

-----------------------------------------------------------------------------
(* C14 *)

\* the payload stored on the entry of the file f, 0 when there is none
ProcessedOf(fs, f) ==
    IF EntriesOf(fs, f) = {} THEN 0
    ELSE fs[CHOOSE k \in EntriesOf(fs, f) : TRUE].processed

\* C14: each derivation task updates only the entry of its own file: the
\* payload stored on an entry is the one computed from that entry's file,
\* and the result of a derivation changes neither the status nor the
\* payload of another file's entry, also when files are removed or added
\* while derivations are in flight.
C14_DerivationUpdatesOwnEntry ==
    [][/\ \A f \in FileIds : ProcessedOf(files', f) \in {0, f}
       /\ \A t \in tasks \ tasks' :
             \A f \in FileIds \ {t.file} :
                 /\ StatusOf(files', f) = StatusOf(files, f)
                 /\ ProcessedOf(files', f) = ProcessedOf(files, f)]_vars

-----------------------------------------------------------------------------
(* C15 *)

\* C15: done is terminal: once the status of a file is done it never
\* changes again, so the file is never uploaded again, under every sequence
\* of selections, removals, derivation completions and further batches.
C15_DoneIsTerminal ==
    [][\A f \in FileIds :
          StatusOf(files, f) = "done" => StatusOf(files', f) = "done"]_vars

-----------------------------------------------------------------------------
(* C16 *)

\* C16: the operator can remove a file only while its status is pending or
\* error: a file that leaves the list had one of these two statuses, and a
\* file whose status is uploading, processing or done never leaves it.
C16_RemovedOnlyWhenPendingOrError ==
    [][\A f \in FileIds :
          (StatusOf(files, f) # "absent" /\ StatusOf(files', f) = "absent")
              => StatusOf(files, f) \in {"pending", "error"}]_vars

\* a file has been removed while another one is being uploaded
C16_Witness ==
    /\ \E f \in 1..(nextFile - 1) : StatusOf(files, f) = "absent"
    /\ \E f \in FileIds : StatusOf(files, f) = "uploading"
    /\ batch.interfered

-----------------------------------------------------------------------------
(* C17 *)

\* C17 (under SpecXhr): a transfer settles once: when the PUT is over the
\* promise of uploadToPresignedUrl is fulfilled if and only if the status
\* is in 200..299, rejected with an error that carries the status for any
\* other response, and rejected when the connection failed; it is never
\* settled twice.
C17_SettlesOnce ==
    /\ result.settled <= 1
    /\ result.state # "pending" =>
          /\ result.settled = 1
          /\ result.state = "fulfilled" <=> (arg >= 200 /\ arg <= 299)
          /\ (arg # 0 /\ ~(arg >= 200 /\ arg <= 299)) =>
                /\ result.state = "rejected"
                /\ result.reason = "Upload failed with status " \o ToString(arg)
          /\ arg = 0 =>
                /\ result.state = "rejected"
                /\ result.reason = "Upload failed"

\* a PUT answered with 403 has rejected the promise
C17_Witness ==
    /\ arg = 403
    /\ result.state = "rejected"
    /\ result.reason = "Upload failed with status 403"

-----------------------------------------------------------------------------
(* C18 *)

\* C18 (under SpecDate): capture-date resolution always yields a valid
\* date: the date of the first present field among DateTimeOriginal,
\* DateTime and DateTimeDigitized; and if no field is present, or the value
\* of that field cannot be parsed, or the extraction throws, the file's
\* last-modified time, or the current time when that is absent.
C18_DateAlwaysValid ==
    result # NoDate =>
        LET present(tag) == arg[tag] # "absent"
            matched == IF present("DateTimeOriginal") THEN "DateTimeOriginal"
                       ELSE IF present("DateTime") THEN "DateTime"
                       ELSE "DateTimeDigitized"
            fallback == \/ arg.loadThrows
                        \/ ~present(matched)
                        \/ arg[matched] \in {"garbage", "notString"}
        IN  /\ result.date = "valid"
            /\ fallback => result.source =
                  IF arg.lastModified # 0 THEN "lastModified" ELSE "now"
            /\ ~fallback => result.source = matched

-----------------------------------------------------------------------------
(* C19 *)

\* C19 (under SpecThumbnail): for an image of width w and height h the
\* thumbnail is at most 800 wide and high and never larger than the image;
\* it has the size of the image when both w and h are at most 800, and
\* otherwise w and h multiplied by the one factor min(800/w, 800/h), each
\* rounded to the nearest integer.
C19_ThumbnailSize ==
    result # NoSize =>
        LET w == arg.width
            h == arg.height
            longer == IF w >= h THEN w ELSE h
            Abs(x) == IF x >= 0 THEN x ELSE -x
            \* |r - v * 800 / longer| <= 1/2
            Nearest(r, v) == 2 * Abs(r * longer - v * 800) <= longer
        IN  /\ result.width <= 800 /\ result.height <= 800
            /\ result.width <= w /\ result.height <= h
            /\ (w <= 800 /\ h <= 800) => result = arg
            /\ (w > 800 \/ h > 800) =>
                  /\ Nearest(result.width, w)
                  /\ Nearest(result.height, h)

\* an image of 4000 x 3000 has been scaled to 800 x 600
C19_Witness ==
    /\ arg = [width |-> 4000, height |-> 3000]
    /\ result = [width |-> 800, height |-> 600]

-----------------------------------------------------------------------------
(* C20 *)

\* C20: POST /api/photos answers 401 to a request whose X-Auth-Key is
\* missing or wrong and 400 to one whose collectionIds is empty (the url,
\* the thumbnail and the date of the client's request are never missing);
\* whenever it answers 401 or 400 it inserts no photo row and no
\* membership row, and the client sets the file of the request to error.
C20_RejectedRequest ==
    [][\A authKey \in AuthKeys, outcome \in DbOutcomes :
          LET response == POST(PhotoRequest(authKey), uploadState.processed,
                               db, outcome)
          IN  PhotoFetched(authKey, outcome, "answered") =>
                /\ authKey # "expected" => response.status = 401
                /\ (authKey = "expected" /\ seq.collectionIds = <<>>)
                      => response.status = 400
                /\ response.status \in {400, 401} =>
                      /\ db' = db
                      /\ StatusOf(files', uploadState.file) = "error"]_vars

-----------------------------------------------------------------------------
(* C21 *)

\* C21: if record creation fails after both transfers of a file succeeded,
\* the file ends in error, no further call is made for it (the client has
\* no delete and no retry: the step issues no transfer and no
\* record-creation call), and the two stored objects are left without a
\* database record: no photo row holds the file's name.
C21_RecordFailureLeavesOrphans ==
    [][\A authKey \in AuthKeys, outcome \in DbOutcomes, net \in NetOutcomes :
          LET response == POST(PhotoRequest(authKey), uploadState.processed,
                               db, outcome)
          IN  (/\ PhotoFetched(authKey, outcome, net)
               /\ ~(net = "answered" /\ StatusIsOk(response.status)))
              => /\ StatusOf(files', uploadState.file) = "error"
                 /\ calls'.xfer \in {calls.xfer, 0}
                 /\ calls'.rec \in {calls.rec, 0}
                 /\ ~BagIn([url |-> uploadState.processed], db'.photos)]_vars

-----------------------------------------------------------------------------
(* C22 *)

\* C22: whenever a file enters uploading at least one destination
\* collection is selected, and every record-creation request that is
\* issued carries a list of collection ids that is not empty.
C22_CollectionsNotEmpty ==
    [][/\ \A f \in FileIds :
             (StatusOf(files', f) = "uploading" /\ StatusOf(files, f) # "uploading")
                 => Len(selectedCollections') > 0
       /\ (pc # "record" /\ pc' = "record") => Len(seq'.collectionIds) > 0]_vars

-----------------------------------------------------------------------------
(* C23 *)

\* C23: when a batch ends it is settled: no file has status uploading, and
\* every file that entered uploading during the batch is done or error
\* (or was removed after it failed), whatever the operator did meanwhile.
C23_BatchSettled ==
    [][BatchEnds =>
          /\ \A f \in FileIds : StatusOf(files', f) # "uploading"
          /\ \A f \in (batch.entered \cap FileIds) \cup
                      ({uploadState.file} \cap FileIds) :
                StatusOf(files', f) \in {"done", "error", "absent"}]_vars

-----------------------------------------------------------------------------
(* C24 *)

-----------------------------------------------------------------------------
(* C25 *)

\* a step of the upload sequence in progress: a continuation of
\* handleUpload or a progress event of its PUT
SequenceStep ==
    \/ \E outcome \in FetchOutcomes : UrlsFetched(outcome)
    \/ \E ok \in BOOLEAN : UrlsParsed(ok)
    \/ \E percent \in Percents : UploadProgress(percent)
    \/ \E status \in XhrOutcomes : OriginalSettled(status)
    \/ \E status \in XhrOutcomes, date \in Dates :
          ThumbnailSettled(status, date)
    \/ \E authKey \in AuthKeys, outcome \in DbOutcomes, net \in NetOutcomes :
          PhotoFetched(authKey, outcome, net)

\* C25: every status and progress update made during a file's upload
\* sequence is applied to the entry of the file whose payload is being
\* uploaded, also when the operator removes another file meanwhile: a step
\* of the sequence adds no entry and changes no entry but that of the file
\* in sequence and, when the loop moves on, that of the file it starts.
C25_UpdatesOwnEntry ==
    [][(SequenceStep /\ uploadState.file \in FileIds) =>
          /\ Len(files') = Len(files)
          /\ \A k \in 1..Len(files) :
                files'[k] # files[k] =>
                    /\ files[k].kind = "obj"
                    /\ files[k].file \in FileIds
                    /\ \/ files[k].file = uploadState.file
                       \/ /\ files[k].file = uploadState'.file
                          /\ files'[k].status = "uploading"]_vars

-----------------------------------------------------------------------------
(* C26 *)

\* the file handles of the entries of the list, in list order; 0 where an
\* element is a hole, undefined or an object without a file
Handles(fs) ==
    [k \in 1..Len(fs) |-> IF fs[k].kind = "obj" THEN fs[k].file ELSE 0]

\* every element is an entry of a file that was selected, and the entries
\* stand in the order of selection, one per file
SelectedInOrder(fs, next) ==
    \A k \in 1..Len(fs) :
        /\ Handles(fs)[k] \in FileIds
        /\ Handles(fs)[k] < next
        /\ \A j \in 1..(k - 1) : Handles(fs)[j] < Handles(fs)[k]

\* a step of the operator that changes which files are listed
ListEdited ==
    \/ \E n \in 1..MaxSelect : handleFileSelect(n)
    \/ \E index \in 0..(MaxFiles - 1) : RemoveClick(index)
    \/ onClose

\* C26: the list holds one entry per file selected and not removed, in
\* selection order, and every entry has a file handle; no callback of a
\* derivation or of an upload adds an entry, leaves a gap or writes past the
\* end: only selecting, removing and closing change which files are listed.
C26_ListHoldsSelectedFiles ==
    [][/\ SelectedInOrder(files', nextFile')
       /\ ~ListEdited => Handles(files') = Handles(files)]_vars

-----------------------------------------------------------------------------
(* C27 *)

\* C27: every batch that starts terminates: provided every network call
\* settles, the uploading flag is reset to false, so the upload button
\* never stays disabled for ever.  Stated on finite runs: whenever the flag
\* is set, handleUpload is waiting for a call of the file in sequence, whose
\* settling lets the loop go on to setUploading(false).
C27_UploadingHasPendingCall ==
    uploading => InSequence

-----------------------------------------------------------------------------
(* C28 *)

\* the derivation of the file f has not settled yet
Deriving(f) == \E t \in tasks : t.file = f

\* C28: every file that enters processing leaves it: once its derivation
\* has settled, its own entry is pending with a payload or error.  Stated
\* on finite runs: an entry is in processing only while the derivation of
\* its file is in flight.
C28_ProcessingOnlyWhileDeriving ==
    \A f \in FileIds : StatusOf(files, f) = "processing" => Deriving(f)

-----------------------------------------------------------------------------
(* The modal after an earlier removal *)

\* MaxFiles limits the files selected from the mounting of the modal on.
\* This specification starts later, so that three files are listed while
\* an older derivation still holds a stale index: the operator has selected
\* two files, removed the first of them when it had derived, and selected
\* two more.  handleFileSelect gave the remaining file actualIndex 1 (it
\* was second of a list of two) and the two new files actualIndex 1 and 2
\* (the list had length 1 when they were appended).  The three listed files
\* are numbered 1 to 3; no derivation has settled and no batch has run.
Processing(f) == [NewUploadState(f) EXCEPT !.status = "processing"]

InitLate ==
    /\ files = <<Processing(1), Processing(2), Processing(3)>>
    /\ tasks = {[file |-> 1, actualIndex |-> 1],
                [file |-> 2, actualIndex |-> 1],
                [file |-> 3, actualIndex |-> 2]}
    /\ nextFile = MaxFiles + 1
    /\ selectedCollections = <<>>
    /\ uploading = FALSE
    /\ pc = "idle"
    /\ i = 0
    /\ uploadState = NoUploadState
    /\ loaded = 0
    /\ alertMsg = "none"
    /\ modalOpen = TRUE
    /\ completed = FALSE
    /\ calls = NoCalls
    /\ seq = NoSeq
    /\ batch = NoBatch
    /\ db = NoRows
    /\ created = EmptyBag
    /\ arg = "none"
    /\ result = "none"

\* the input element offers no further file
NextLate ==
    \/ \E id \in Collections : toggleCollection(id)
    \/ \E index \in 0..(MaxFiles - 1) : RemoveClick(index)
    \/ onClose
    \/ handleUpload
    \/ \E t \in tasks : ProcessImageResolved(t)
    \/ \E t \in tasks : ProcessImageRejected(t)
    \/ \E outcome \in FetchOutcomes : UrlsFetched(outcome)
    \/ \E ok \in BOOLEAN : UrlsParsed(ok)
    \/ \E percent \in Percents : UploadProgress(percent)
    \/ \E status \in XhrOutcomes : OriginalSettled(status)
    \/ \E status \in XhrOutcomes, date \in Dates :
          ThumbnailSettled(status, date)
    \/ \E authKey \in AuthKeys, outcome \in DbOutcomes, net \in NetOutcomes :
          PhotoFetched(authKey, outcome, net)

SpecLate == InitLate /\ [][NextLate]_vars

-----------------------------------------------------------------------------
(* C29 *)

\* handleUpload enters its loop, or goes on with it after a sequence
LoopMoves ==
    \/ pc = "idle" /\ pc' = "acquire"
    \/ InSequence /\ (i' # i \/ pc' \in {"idle", "dead"})

\* the first index the loop examines in this step
LoopResumesAt == IF pc = "idle" THEN 0 ELSE i + 1

\* the entries of the file f that the loop has passed
Passed(fs, f) == {k \in EntriesOf(fs, f) : k - 1 < i}

\* C29: eligibility is evaluated when the loop reaches a file, not at batch
\* start: the loop starts the sequence of the entry at its index exactly
\* when that entry is pending with a payload at that moment and skips the
\* entries that are not, and an entry that is ready behind the loop index
\* is not taken up again: it is still pending (or was removed by the
\* operator) after every further step of the batch, up to its end.
C29_EligibilityAtLoopIndex ==
    [][/\ LoopMoves =>
            /\ pc' = "acquire" =>
                  /\ i' < Len(files)
                  /\ Ready(files[i' + 1])
                  /\ files'[i' + 1].status = "uploading"
            /\ \A k \in (LoopResumesAt + 1)..Len(files) :
                  (k - 1 < i' /\ files[k].kind = "obj") => ~Ready(files[k])
       /\ InSequence =>
            \A f \in FileIds :
                (Passed(files, f) # {} /\ Ready(files[CHOOSE k \in Passed(files, f) : TRUE]))
                    => StatusOf(files', f) \in {"pending", "absent"}]_vars

-----------------------------------------------------------------------------
(* C30 *)

\* every photo row of the tables has a membership row
EveryPhotoInCollection(rows) ==
    \A photo \in BagToSet(rows.photos) :
        \E membership \in BagToSet(rows.photoCollections) :
            membership.photo = photo.url

\* C30: every photo row created by POST /api/photos has at least one
\* membership row, also when the membership insert fails after the photo
\* insert succeeded: the tables the handler leaves hold no photo without a
\* collection, and a request that is not answered with a 2xx status (the
\* client sets its file to error) has added no photo row.
C30_NoPhotoWithoutCollection ==
    result # NoResponse =>
        /\ EveryPhotoInCollection(result.db)
        /\ ~StatusIsOk(result.status) => result.db.photos = arg.rows.photos

=============================================================================
